---- MODULE Spec2Model ----
(***************************************************************************)
(* GeMMMapReduce (src/gemmmapreduce/core.py): the reference tile planner   *)
(* `slicer` and the forward fold / backward re-derivation of the operator  *)
(* built by mk_GeMMMapReduce.                                              *)
(*                                                                         *)
(* Tensors are rank-0 (scalar) or rank-1 and hold integers.  An index      *)
(* tuple is a sequence of slices [lo, hi); a view is the region of a       *)
(* tensor an index tuple addresses, so that a write through it changes the *)
(* owning tensor.                                                          *)
(***************************************************************************)
EXTENDS Integers, Sequences, FiniteSets, TLC

\* ------------------------------------------------------------------ bounds
MaxTot == 8
MaxSlicerChunk == 9
MaxLen == 3
MaxVal == 1
MaxChunk == 3
MaxGrad == 2
MaxAgain == 1

\* ----------------------------------------------------------------- helpers
Min(a, b) == IF a < b THEN a ELSE b

Max(a, b) == IF a < b THEN b ELSE a

RECURSIVE SumSeq(_)
SumSeq(s) == IF s = <<>> THEN 0 ELSE Head(s) + SumSeq(Tail(s))

\* ------------------------------------------------------------------ slicer
\* `while (start < tot)`
slicer_more(tot, start) == start < tot

\* `end = min(tot, start + chunk)`
slicer_end_nomin(tot, chunk, start) == start + chunk

slicer_end_unit(tot, chunk, start) == Min(tot, start + 1)

slicer_end(tot, chunk, start) == Min(tot, start + chunk)

\* list(slicer(tot, chunk)): the slices the generator yields, in order.
RECURSIVE slicer_from(_, _, _)
slicer_from(tot, chunk, start) ==
    IF slicer_more(tot, start)
    THEN <<[lo |-> start, hi |-> slicer_end(tot, chunk, start)]>>
         \o slicer_from(tot, chunk, slicer_end(tot, chunk, start))
    ELSE <<>>

slicer(tot, chunk) == slicer_from(tot, chunk, 0)

\* ----------------------------------------------------------------- tensors
Scalar(v) == [rank |-> 0, data |-> <<v>>]

Vec(s) == [rank |-> 1, data |-> s]

Numel(t) == Len(t.data)

Fill(n, v) == [i \in 1..n |-> v]

\* zip(S, V) stops at the shorter of its arguments.
ZipLen(S, V) == Min(Len(S), Len(V))

\* `Ti[*slz]` raises IndexError when slz holds more indices than Ti has
\* dimensions.
index_ok(t, slz) == Len(slz) <= t.rank

\* `Ti[*slz]`: the region of Ti the index tuple addresses.  A slice is clamped
\* to the tensor's extent, as Python and torch slicing do; the empty index
\* tuple addresses the whole tensor.
view_of(t, slz) ==
    IF slz = <<>>
    THEN [lo |-> 0, hi |-> Numel(t), rank |-> t.rank]
    ELSE LET s == Min(slz[1].lo, Numel(t))
             e == Min(slz[1].hi, Numel(t))
         IN  [lo |-> s, hi |-> Max(s, e), rank |-> 1]

\* The value seen through a view.
read(t, v) == [rank |-> v.rank, data |-> SubSeq(t.data, v.lo + 1, v.hi)]

\* `[Ti[*slz] for (Ti, slz) in zip(T, views)]`
slices_ok(T, views) == \A i \in 1..ZipLen(T, views) : index_ok(T[i], views[i])

slices(T, views) == [i \in 1..ZipLen(T, views) |-> view_of(T[i], views[i])]

reads(T, vs) == [i \in 1..Len(vs) |-> read(T[i], vs[i])]

\* Broadcasting of src to a destination of the given rank and length.
expandable(src, rank, n) == src.rank <= rank /\ (Numel(src) = n \/ Numel(src) = 1)

expand(src, n) == IF Numel(src) = n THEN src.data ELSE Fill(n, src.data[1])

\* A write through view v of tensor t.
write(t, v, d) ==
    [t EXCEPT !.data = [i \in 1..Numel(t) |->
        IF i > v.lo /\ i <= v.hi THEN d[i - v.lo] ELSE t.data[i]]]

\* `view.copy_(new_val)`
copy_noop(t, v, src) == t

copy_(t, v, src) == write(t, v, expand(src, v.hi - v.lo))

\* `g.add_(d)`
add_overwrite(t, v, src) == write(t, v, expand(src, v.hi - v.lo))

add_(t, v, src) ==
    write(t, v, [i \in 1..(v.hi - v.lo) |-> t.data[v.lo + i] + expand(src, v.hi - v.lo)[i]])

\* `p.new_zeros(p.shape)`
new_zeros(p) == [rank |-> p.rank, data |-> Fill(Numel(p), 0)]

\* Elementwise arithmetic of two tensors, with broadcasting.
broadcast_ok(p, q) == Numel(p) = Numel(q) \/ Numel(p) = 1 \/ Numel(q) = 1

\* op is "add" (u + v), "mul" (u * v) or "axpy" (2 * u + v).
arith(op, u, v) == IF op = "add" THEN u + v ELSE IF op = "mul" THEN u * v ELSE 2 * u + v

ew(op, p, q) ==
    LET n == IF Numel(p) = 1 THEN Numel(q) ELSE Numel(p)
    IN  [rank |-> Max(p.rank, q.rank),
         data |-> [i \in 1..n |-> arith(op, expand(p, n)[i], expand(q, n)[i])]]

\* --------------------------------------------- the caller-supplied functions
\* mk_GeMMMapReduce is given init, chunker, proj_fold, proj_fold_bwd and
\* binary_reduce by its caller.  Two operator definitions are modelled:
\*   "sum"     a zero scalar accumulator, proj_fold(x) = x.sum(),
\*             binary_reduce(a, l) = a + l, proj_fold_bwd = ga expanded over x;
\*   "affine"  an accumulator of ones shaped like the input,
\*             proj_fold(x) = x.sum(), binary_reduce(a, l) = 2 * a + l
\*             (order-sensitive, l broadcast over the accumulator slice),
\*             proj_fold_bwd(x, a, ga) = a * ga + x.
Kernels == {"sum", "affine"}

init(k, X) ==
    IF k = "sum" THEN <<Scalar(0)>> ELSE <<Vec(Fill(Numel(X[1]), 1))>>

\* proj_fold(*x) takes one tensor; any other number of arguments is a TypeError.
proj_fold_ok(k, x) == Len(x) = 1

proj_fold(k, x) ==
    <<Scalar(SumSeq(x[1].data))>>

binary_reduce_ok(k, a, l) == \A i \in 1..ZipLen(a, l) : broadcast_ok(a[i], l[i])

binary_reduce(k, a, l) ==
    [i \in 1..ZipLen(a, l) |->
        IF k = "sum"
        THEN ew("add", a[i], l[i])
        ELSE ew("axpy", a[i], l[i])]

proj_fold_bwd_ok(k, x, a, ga) ==
    /\ Len(x) = 1
    /\ Len(ga) >= 1
    /\ IF k = "sum"
       THEN expandable(ga[1], x[1].rank, Numel(x[1]))
       ELSE /\ Len(a) >= 1
            /\ broadcast_ok(a[1], ga[1])
            /\ broadcast_ok(ew("mul", a[1], ga[1]), x[1])

proj_fold_bwd(k, x, a, ga) ==
    IF k = "sum"
    THEN <<[rank |-> x[1].rank, data |-> expand(ga[1], Numel(x[1]))]>>
    ELSE <<ew("add", ew("mul", a[1], ga[1]), x[1])>>

\* Ranges [start, end) of width w taken every stride, clamped to tot or not.
RECURSIVE strided_from(_, _, _, _, _)
strided_from(tot, w, stride, start, clamp) ==
    IF start < tot
    THEN <<[lo |-> start, hi |-> IF clamp THEN Min(tot, start + w) ELSE start + w]>>
         \o strided_from(tot, w, stride, start + stride, clamp)
    ELSE <<>>

\* The correspondence of one range: the "sum" accumulator is addressed whole,
\* the "affine" accumulator at the same range as the input.
tile_of(k, r) ==
    [a_views |-> <<IF k = "sum" THEN <<>> ELSE <<r>>>>, x_views |-> <<<<r>>>>]

\* The ranges planner p yields on its n-th call (n counts from 0): only the
\* "alternating" planner is stateful.
ranges_of(p, tot, n) ==
    CASE p.kind = "strided" -> strided_from(tot, p.w, p.stride, 0, TRUE)
      [] p.kind = "overrun" -> strided_from(tot, p.w, p.w, 0, FALSE)
      [] p.kind = "alternating" ->
            IF n % 2 = 0 THEN slicer(tot, p.w)
            ELSE strided_from(tot, p.w2, p.stride2, 0, TRUE)
      [] OTHER -> slicer(tot, p.w)

\* list(chunker(*X)) on the planner's n-th call.
chunker(k, p, X, n) ==
    LET rs == ranges_of(p, Numel(X[1]), n)
        ts == [i \in 1..Len(rs) |-> tile_of(k, rs[i])]
    IN  CASE p.kind = "whole" -> <<[a_views |-> << <<>> >>, x_views |-> << <<>> >>]>>
          [] p.kind = "short_a" -> [i \in 1..Len(rs) |-> [ts[i] EXCEPT !.a_views = <<>>]]
          [] p.kind = "long_a" ->
                [i \in 1..Len(rs) |-> [ts[i] EXCEPT !.a_views = @ \o @]]
          [] p.kind = "short_x" -> [i \in 1..Len(rs) |-> [ts[i] EXCEPT !.x_views = <<>>]]
          [] p.kind = "deep" ->
                [i \in 1..Len(rs) |-> [ts[i] EXCEPT !.x_views = << <<rs[i], rs[i]>> >>]]
          [] OTHER -> ts

Chunks == 1..MaxChunk

Planner(kind, w, stride, w2, stride2) ==
    [kind |-> kind, w |-> w, stride |-> stride, w2 |-> w2, stride2 |-> stride2]

\* Planners whose correspondences fit the shapes and that are pure.
PurePlanners ==
    {Planner("slicer", w, w, 0, 0) : w \in Chunks}
    \cup {Planner("strided", w, st, 0, 0) : w \in Chunks, st \in Chunks}
    \cup {Planner("whole", 1, 1, 0, 0)}

\* Stateful planners: slicer(w) on even calls, another tiling on odd calls.
StatefulPlanners ==
    {Planner("alternating", w, w, w2, st2) : w \in Chunks, w2 \in Chunks, st2 \in Chunks}

\* Planners whose correspondences do not fit the shapes.
FaultyKinds == {"overrun", "short_a", "long_a", "short_x", "deep"}

FaultyPlanners == {Planner(kd, w, w, 0, 0) : kd \in FaultyKinds, w \in Chunks}

Planners == PurePlanners \cup StatefulPlanners \cup FaultyPlanners

\* The input sets: one rank-1 integer tensor of bounded length; the operator
\* "sum" tiled by slicer(., 3) is also run on every input of length 8.
Vals == 0..MaxVal

Tensors(n) == {Vec(d) : d \in [1..n -> Vals]}

Inputs(k, p) ==
    {<<t>> : t \in UNION {Tensors(n) : n \in 0..MaxLen}}
    \cup IF k = "sum" /\ p = Planner("slicer", 3, 3, 0, 0)
         THEN {<<t>> : t \in Tensors(8)} ELSE {}

\* The inputs a loop of calls draws from: of length MaxLen, not constant.
LoopInputs == {<<Vec([i \in 1..MaxLen |-> (v + i) % (MaxVal + 1)])>> : v \in Vals}

\* The planners a loop of calls is run under.
LoopPlanners == {p \in PurePlanners : p.w = MaxChunk}

\* The incoming output gradients for accumulators shaped like A: constant g,
\* or g, g+1, g+2, ...
Upstream(A) ==
    {<<[rank |-> A[1].rank, data |-> [i \in 1..Numel(A[1]) |-> g]]>> : g \in 1..MaxGrad}
    \cup {<<[rank |-> A[1].rank, data |-> [i \in 1..Numel(A[1]) |-> g + i - 1]]>> :
            g \in 1..MaxGrad}

\* ------------------------------------------------- the loop bodies, per tile
\* `for view, new_val in zip(a, new_a): view.copy_(new_val)`, from the i-th
\* pair on; a copy that cannot broadcast raises and leaves the earlier copies.
RECURSIVE copy_all(_, _, _, _)
copy_all(Acc, a, new_a, i) ==
    IF i > ZipLen(a, new_a) THEN [A |-> Acc, err |-> "none"]
    ELSE IF ~expandable(new_a[i], a[i].rank, a[i].hi - a[i].lo)
    THEN [A |-> Acc, err |-> "RuntimeError@copy_"]
    ELSE copy_all([Acc EXCEPT ![i] = copy_(Acc[i], a[i], new_a[i])], a, new_a, i + 1)

\* `for g, d in zip(gx_acc, gx): g.add_(d)`
RECURSIVE add_all(_, _, _, _)
add_all(G, gx_acc, gx, i) ==
    IF i > ZipLen(gx_acc, gx) THEN [gX |-> G, err |-> "none"]
    ELSE IF ~expandable(gx[i], gx_acc[i].rank, gx_acc[i].hi - gx_acc[i].lo)
    THEN [gX |-> G, err |-> "RuntimeError@add_"]
    ELSE add_all([G EXCEPT ![i] = add_(G[i], gx_acc[i], gx[i])], gx_acc, gx, i + 1)

NoEntry == <<>>

\* `for a_views, x_views in chunker(*X)`: the loop takes the planner's next tile.
next_tile_last(tiles) == tiles[Len(tiles)]

next_tile(tiles) == Head(tiles)

\* The body of forward's loop for tile t: the accumulators after it, the error
\* it raised if any, and what it passed to the caller's functions.
forward_body(k, Acc, Xs, t) ==
    IF ~(slices_ok(Acc, t.a_views) /\ slices_ok(Xs, t.x_views))
    THEN [A |-> Acc, err |-> "IndexError@slice", entry |-> NoEntry]
    ELSE LET a == slices(Acc, t.a_views)
             x == reads(Xs, slices(Xs, t.x_views))
         IN  IF ~proj_fold_ok(k, x)
             THEN [A |-> Acc, err |-> "TypeError@proj_fold", entry |-> NoEntry]
             ELSE LET local_a == proj_fold(k, x)
                      a_read == reads(Acc, a)
                  IN  IF ~binary_reduce_ok(k, a_read, local_a)
                      THEN [A |-> Acc, err |-> "RuntimeError@binary_reduce",
                            entry |-> NoEntry]
                      ELSE LET new_a == binary_reduce(k, a_read, local_a)
                               c == copy_all(Acc, a, new_a, 1)
                           IN  [A |-> c.A, err |-> c.err,
                                entry |-> <<[tile |-> t, x |-> x, a |-> a_read,
                                             local_a |-> local_a, new_a |-> new_a]>>]

\* The body of backward's loop for tile t.
backward_body(k, Xs, As, gAs, G, t) ==
    IF ~(/\ slices_ok(As, t.a_views) /\ slices_ok(gAs, t.a_views)
         /\ slices_ok(Xs, t.x_views) /\ slices_ok(G, t.x_views))
    THEN [gX |-> G, err |-> "IndexError@slice", entry |-> NoEntry]
    ELSE LET a == reads(As, slices(As, t.a_views))
             ga == reads(gAs, slices(gAs, t.a_views))
             x == reads(Xs, slices(Xs, t.x_views))
             gx_acc == slices(G, t.x_views)
         IN  IF ~proj_fold_bwd_ok(k, x, a, ga)
             THEN [gX |-> G, err |-> "RuntimeError@proj_fold_bwd", entry |-> NoEntry]
             ELSE LET gx == proj_fold_bwd(k, x, a, ga)
                      r == add_all(G, gx_acc, gx, 1)
                  IN  [gX |-> r.gX, err |-> r.err,
                       entry |-> <<[tile |-> t, x |-> x, a |-> a, ga |-> ga, gx |-> gx]>>]

\* `ctx.save_for_backward(*inputs, *outputs)`
save_for_backward(inputs, outputs) == inputs \o outputs

\* `X = ctx.saved_tensors[:ctx.num_inputs]`, `A = ctx.saved_tensors[ctx.num_inputs:]`
saved_X(c) == SubSeq(c.saved_tensors, 1, c.num_inputs)

saved_A_unsplit(c) == c.saved_tensors

saved_A(c) == SubSeq(c.saved_tensors, c.num_inputs + 1, Len(c.saved_tensors))

\* `gX = [p.new_zeros(p.shape) for p in X]`
grad_buffers_ones(Xs) == [i \in 1..Len(Xs) |-> [rank |-> Xs[i].rank, data |-> Fill(Numel(Xs[i]), 1)]]

grad_buffers(Xs) == [i \in 1..Len(Xs) |-> new_zeros(Xs[i])]

VARIABLES
    s_tot,      \* slicer: argument tot
    s_chunk,    \* slicer: argument chunk
    s_start,    \* slicer: local start
    s_out,      \* slicer: the slices yielded so far
    s_pc,       \* slicer: "run" inside the loop, "done" once exhausted
    kernel,     \* the operator definition: init, proj_fold, proj_fold_bwd, binary_reduce
    planner,    \* the operator definition: chunker
    plan_calls, \* how many times chunker has been called (a stateful planner reads it)
    pc,         \* where the operator is: idle, fwd, fwd_done, saved, bwd, bwd_done, raised
    X,          \* forward: the inputs
    A,          \* forward: the accumulators
    it,         \* the tiles the running loop has still to take from chunker(*X)
    ctx,        \* what setup_context keeps: num_inputs and saved_tensors
    gA,         \* backward: the incoming output gradients
    gX,         \* backward: the gradient buffers
    fwd_log,    \* per tile forward folded: what it read and passed on
    bwd_log,    \* per tile backward took: the proj_fold_bwd call and its result
    err,        \* "none", or the error raised and the step that raised it
    harness,    \* the caller: "single" forward/backward pair, or a "loop" of them
    budget      \* loop: further forward or backward calls the caller will make

svars == <<s_tot, s_chunk, s_start, s_out, s_pc>>

evars == <<kernel, planner, plan_calls, pc, X, A, it, ctx, gA, gX, fwd_log, bwd_log,
           err, harness, budget>>

vars == <<svars, evars>>

NoCtx == [num_inputs |-> 0, saved_tensors |-> <<>>]

EngineIdle ==
    /\ plan_calls = 0
    /\ X = <<>>
    /\ A = <<>>
    /\ it = <<>>
    /\ ctx = NoCtx
    /\ gA = <<>>
    /\ gX = <<>>
    /\ fwd_log = <<>>
    /\ bwd_log = <<>>
    /\ err = "none"

SlicerOff ==
    /\ s_tot = 0
    /\ s_chunk = 1
    /\ s_start = 0
    /\ s_out = <<>>
    /\ s_pc = "off"

\* ------------------------------------------------------------ slicer, run
\* A call slicer(tot, chunk) with tot >= 0 and chunk > 0.
SlicerInit ==
    /\ s_tot \in 0..MaxTot
    /\ s_chunk \in 1..MaxSlicerChunk
    /\ s_start = 0
    /\ s_out = <<>>
    /\ s_pc = "run"
    /\ kernel = "sum"
    /\ planner = Planner("whole", 1, 1, 0, 0)
    /\ pc = "off"
    /\ harness = "single"
    /\ budget = 0
    /\ EngineIdle

\* One iteration of the loop: compute end, yield slice(start, end), advance.
\* (No run yields more than tot slices; the guard on Len(s_out) only keeps a
\* generator that overshoots finite.)
SlicerYield ==
    /\ s_pc = "run"
    /\ slicer_more(s_tot, s_start)
    /\ Len(s_out) <= MaxTot + 1
    /\ s_out' = Append(s_out, [lo |-> s_start, hi |-> slicer_end(s_tot, s_chunk, s_start)])
    /\ s_start' = slicer_end(s_tot, s_chunk, s_start)
    /\ UNCHANGED <<s_tot, s_chunk, s_pc>>
    /\ UNCHANGED evars

\* The loop condition fails: the generator is exhausted.
SlicerStop ==
    /\ s_pc = "run"
    /\ ~slicer_more(s_tot, s_start)
    /\ s_pc' = "done"
    /\ UNCHANGED <<s_tot, s_chunk, s_start, s_out>>
    /\ UNCHANGED evars

SlicerNext == SlicerYield \/ SlicerStop

SpecSlicer == SlicerInit /\ [][SlicerNext]_vars

\* ------------------------------------------------------- the operator, run
Init ==
    /\ kernel \in Kernels
    /\ planner \in Planners
    /\ pc = "idle"
    /\ harness = "single"
    /\ budget = 0
    /\ EngineIdle
    /\ SlicerOff

\* forward(*X) is entered: `A = init(*X)` and the loop's `chunker(*X)`.
forward_start ==
    /\ pc = "idle"
    /\ \E Xin \in IF harness = "loop" THEN LoopInputs ELSE Inputs(kernel, planner) :
          /\ X' = Xin
          /\ A' = init(kernel, Xin)
          /\ it' = chunker(kernel, planner, Xin, plan_calls)
    /\ plan_calls' = plan_calls + 1
    /\ pc' = "fwd"
    /\ fwd_log' = <<>>
    /\ bwd_log' = <<>>
    /\ err' = "none"
    /\ UNCHANGED <<kernel, planner, ctx, gA, gX, harness, budget, svars>>

\* One pass through forward's loop body.
forward_tile ==
    /\ pc = "fwd"
    /\ it # <<>>
    /\ LET r == forward_body(kernel, A, X, next_tile(it))
       IN  /\ A' = r.A
           /\ err' = r.err
           /\ pc' = IF r.err = "none" THEN "fwd" ELSE "raised"
           /\ fwd_log' = fwd_log \o r.entry
    /\ it' = Tail(it)
    /\ UNCHANGED <<kernel, planner, plan_calls, X, ctx, gA, gX, bwd_log, harness, budget, svars>>

\* The planner is exhausted: `return A`.
forward_return ==
    /\ pc = "fwd"
    /\ it = <<>>
    /\ pc' = "fwd_done"
    /\ UNCHANGED <<kernel, planner, plan_calls, X, A, it, ctx, gA, gX, fwd_log, bwd_log,
                   err, harness, budget, svars>>

\* setup_context(ctx, inputs, outputs)
setup_context ==
    /\ pc = "fwd_done"
    /\ ctx' = [num_inputs |-> Len(X), saved_tensors |-> save_for_backward(X, A)]
    /\ pc' = "saved"
    /\ UNCHANGED <<kernel, planner, plan_calls, X, A, it, gA, gX, fwd_log, bwd_log,
                   err, harness, budget, svars>>

\* backward(ctx, *gA) is entered: the gradient buffers and the loop's chunker(*X).
backward_start_replay ==
    /\ pc = "saved"
    /\ \E g \in Upstream(saved_A(ctx)) : gA' = g
    /\ gX' = grad_buffers(saved_X(ctx))
    /\ it' = chunker(kernel, planner, saved_X(ctx), plan_calls - 1)
    /\ plan_calls' = plan_calls + 1
    /\ pc' = "bwd"
    /\ bwd_log' = <<>>
    /\ UNCHANGED <<kernel, planner, X, A, ctx, fwd_log, err, harness, budget, svars>>

backward_start_reuse ==
    /\ pc = "saved"
    /\ \E g \in Upstream(saved_A(ctx)) : gA' = g
    /\ gX' = IF Len(gX) = Len(saved_X(ctx)) THEN gX ELSE grad_buffers(saved_X(ctx))
    /\ it' = chunker(kernel, planner, saved_X(ctx), plan_calls)
    /\ plan_calls' = plan_calls + 1
    /\ pc' = "bwd"
    /\ bwd_log' = <<>>
    /\ UNCHANGED <<kernel, planner, X, A, ctx, fwd_log, err, harness, budget, svars>>

backward_start ==
    /\ pc = "saved"
    /\ \E g \in Upstream(saved_A(ctx)) : gA' = g
    /\ gX' = grad_buffers(saved_X(ctx))
    /\ it' = chunker(kernel, planner, saved_X(ctx), plan_calls)
    /\ plan_calls' = plan_calls + 1
    /\ pc' = "bwd"
    /\ bwd_log' = <<>>
    /\ UNCHANGED <<kernel, planner, X, A, ctx, fwd_log, err, harness, budget, svars>>

\* One pass through backward's loop body.
backward_tile ==
    /\ pc = "bwd"
    /\ it # <<>>
    /\ LET r == backward_body(kernel, saved_X(ctx), saved_A(ctx), gA, gX, next_tile(it))
       IN  /\ gX' = r.gX
           /\ err' = r.err
           /\ pc' = IF r.err = "none" THEN "bwd" ELSE "raised"
           /\ bwd_log' = bwd_log \o r.entry
    /\ it' = Tail(it)
    /\ UNCHANGED <<kernel, planner, plan_calls, X, A, ctx, gA, fwd_log, harness, budget, svars>>

\* The planner is exhausted: `return tuple(gX)`.
backward_return ==
    /\ pc = "bwd"
    /\ it = <<>>
    /\ pc' = "bwd_done"
    /\ UNCHANGED <<kernel, planner, plan_calls, X, A, it, ctx, gA, gX, fwd_log, bwd_log,
                   err, harness, budget, svars>>

Next ==
    \/ forward_start
    \/ forward_tile
    \/ forward_return
    \/ setup_context
    \/ backward_start
    \/ backward_tile
    \/ backward_return

Spec == Init /\ [][Next]_vars

\* ---------------------------------------------- the operator, called again
\* check_speed calls f1(*inputs) and backward over and over.
InitLoop ==
    /\ kernel \in Kernels
    /\ planner \in LoopPlanners
    /\ pc = "idle"
    /\ harness = "loop"
    /\ budget = MaxAgain
    /\ EngineIdle
    /\ SlicerOff

\* The caller goes on to its next forward call.
next_call ==
    /\ pc \in {"saved", "bwd_done"}
    /\ budget > 0
    /\ budget' = budget - 1
    /\ pc' = "idle"
    /\ UNCHANGED <<kernel, planner, plan_calls, X, A, it, ctx, gA, gX, fwd_log, bwd_log,
                   err, harness, svars>>

\* The caller runs backward once more over the same saved state.
backward_again ==
    /\ pc = "bwd_done"
    /\ budget > 0
    /\ budget' = budget - 1
    /\ pc' = "saved"
    /\ UNCHANGED <<kernel, planner, plan_calls, X, A, it, ctx, gA, gX, fwd_log, bwd_log,
                   err, harness, svars>>

NextLoop == Next \/ next_call \/ backward_again

SpecLoop == InitLoop /\ [][NextLoop]_vars

\* ------------------------------------------------------------------ claims
\* Positions 0..tot-1 each lie in exactly one of the ranges rs.
CoversOnce(rs, tot) ==
    \A j \in 0..(tot - 1) :
        Cardinality({i \in 1..Len(rs) : rs[i].lo <= j /\ j < rs[i].hi}) = 1

\* C1: for tot >= 0 and chunk > 0 the ranges slicer(tot, chunk) yields are
\* finitely many, the first starts at 0, each starts where the previous one
\* ended, every range is non-empty and at most chunk long, starts strictly
\* increase, and once the generator is exhausted the last range ends at tot
\* and the ranges cover [0, tot) exactly once.
C1_SlicerTiling ==
    s_pc \in {"run", "done"} =>
        /\ Len(s_out) <= s_tot
        /\ \A i \in 1..Len(s_out) :
              /\ s_out[i].lo < s_out[i].hi
              /\ s_out[i].hi - s_out[i].lo <= s_chunk
              /\ s_out[i].hi <= s_tot
              /\ i = 1 => s_out[i].lo = 0
              /\ i > 1 => /\ s_out[i].lo = s_out[i - 1].hi
                          /\ s_out[i].lo > s_out[i - 1].lo
        /\ s_pc = "done" =>
              /\ s_out # <<>> => s_out[Len(s_out)].hi = s_tot
              /\ CoversOnce(s_out, s_tot)
              /\ s_out = slicer(s_tot, s_chunk)

\* C1 witness: an exhausted run of at least three ranges whose last range is
\* shorter than chunk.
C1_Witness ==
    /\ s_pc = "done"
    /\ Len(s_out) >= 3
    /\ s_out[Len(s_out)].hi - s_out[Len(s_out)].lo < s_chunk

\* C2 as stated: whenever chunk >= tot the exhausted generator has yielded
\* exactly one range, [0, tot), and whenever tot = 0 it has yielded none.
C2_Original ==
    s_pc = "done" =>
        /\ s_chunk >= s_tot => s_out = <<[lo |-> 0, hi |-> s_tot]>>
        /\ s_tot = 0 => s_out = <<>>

\* C2 amended: whenever chunk >= tot and tot > 0 the exhausted generator has
\* yielded exactly one range, [0, tot), and whenever tot = 0 it has yielded none.
C2_SingleTile ==
    s_pc = "done" =>
        /\ (s_chunk >= s_tot /\ s_tot > 0) => s_out = <<[lo |-> 0, hi |-> s_tot]>>
        /\ s_tot = 0 => s_out = <<>>

\* C2 witness: an exhausted run with chunk > tot > 0.
C2_Witness == s_pc = "done" /\ s_chunk > s_tot /\ s_tot > 0 /\ Len(s_out) = 1

\* ------------------------------------------- reference values, per position
\* The tiles of a log, in the order they were taken.
Tiles(log) == [i \in 1..Len(log) |-> log[i].tile]

\* Position j (from 1) lies in the region view v addresses.
Covers(v, j) == v.lo < j /\ j <= v.hi

\* combine at one accumulator location.
combine1(k, u, v) == IF k = "sum" THEN u + v ELSE 2 * u + v

\* Location j of the accumulator after the left fold, in order, of the first
\* n of the given tiles: combine(... combine(combine(init, p1), p2) ..., pn)
\* over the tiles whose accumulator slice holds j.
RECURSIVE FoldAt(_, _, _, _, _)
FoldAt(k, Xs, tiles, n, j) ==
    IF n = 0 THEN init(k, Xs)[1].data[j]
    ELSE LET prev == FoldAt(k, Xs, tiles, n - 1, j)
             v == view_of(init(k, Xs)[1], tiles[n].a_views[1])
             p == proj_fold(k, reads(Xs, slices(Xs, tiles[n].x_views)))[1]
         IN  IF Covers(v, j) THEN combine1(k, prev, expand(p, v.hi - v.lo)[j - v.lo])
             ELSE prev

\* The accumulators after the left fold of all the given tiles.
RefForward(k, Xs, tiles) ==
    <<[rank |-> init(k, Xs)[1].rank,
       data |-> [j \in 1..Numel(init(k, Xs)[1]) |-> FoldAt(k, Xs, tiles, Len(tiles), j)]]>>

\* Position j of the input gradient: the sum of the proj_fold_bwd results of
\* those of the first n tiles whose input slice holds j.
RECURSIVE GradAt(_, _, _, _, _, _, _)
GradAt(k, Xs, As, gAs, tiles, n, j) ==
    IF n = 0 THEN 0
    ELSE LET t == tiles[n]
             v == view_of(Xs[1], t.x_views[1])
             gx == proj_fold_bwd(k, reads(Xs, slices(Xs, t.x_views)),
                                 reads(As, slices(As, t.a_views)),
                                 reads(gAs, slices(gAs, t.a_views)))[1]
         IN  GradAt(k, Xs, As, gAs, tiles, n - 1, j)
             + IF Covers(v, j) THEN expand(gx, v.hi - v.lo)[j - v.lo] ELSE 0

RefBackward(k, Xs, As, gAs, tiles) ==
    <<[rank |-> Xs[1].rank,
       data |-> [j \in 1..Numel(Xs[1]) |-> GradAt(k, Xs, As, gAs, tiles, Len(tiles), j)]]>>

\* The sequence the planner returned to forward (its call 0) and to backward
\* (its call 1) of the first invocation.
FwdPlan == chunker(kernel, planner, X, 0)

BwdPlan == chunker(kernel, planner, saved_X(ctx), 1)

\* C3: for the operator "sum" tiled by slicer(n, chunk), on every input of
\* length n (n = 8 with chunk = 3 among them) forward returns the sum of all
\* n elements without raising, and backward returns the upstream gradient at
\* every one of the n positions: all ones for upstream gradient 1.
C3_SumScenario ==
    (kernel = "sum" /\ planner.kind = "slicer") =>
        /\ pc # "raised"
        /\ pc \in {"fwd_done", "saved", "bwd", "bwd_done"} =>
              A = <<Scalar(SumSeq(X[1].data))>>
        /\ pc = "bwd_done" =>
              /\ gX = <<Vec(Fill(Numel(X[1]), gA[1].data[1]))>>
              /\ gA = <<Scalar(1)>> => gX = <<Vec(Fill(Numel(X[1]), 1))>>

\* C3 witness: backward has returned for an input of length 8 that is not all
\* zero, chunk 3 and upstream gradient 1.
C3_Witness ==
    /\ kernel = "sum" /\ planner = Planner("slicer", 3, 3, 0, 0)
    /\ pc = "bwd_done"
    /\ Numel(X[1]) = 8
    /\ SumSeq(X[1].data) > 1
    /\ gA = <<Scalar(1)>>
    /\ gX = <<Vec(Fill(8, 1))>>

\* C4: when the planner yields one correspondence whose views address the
\* whole of every accumulator and input, forward returns
\* combine(init(X), project(X)).
C4_SingletonTiling ==
    (planner.kind = "whole" /\ pc \in {"fwd_done", "saved"}) =>
        A = binary_reduce(kernel, init(kernel, X), proj_fold(kernel, X))

\* C4 witness: forward has returned under the singleton tiling with a result
\* that differs from init(X).
C4_Witness ==
    /\ planner.kind = "whole"
    /\ pc = "fwd_done"
    /\ Len(fwd_log) = 1
    /\ A # init(kernel, X)

\* C5: the gradient buffers start as zeros shaped like the inputs, and after
\* any number of tiles each position holds the sum of the proj_fold_bwd results
\* of the tiles taken so far whose input slice holds it: zero where none does.
C5_GradAccumulation ==
    pc \in {"bwd", "bwd_done"} =>
        /\ Len(bwd_log) = 0 => gX = <<new_zeros(saved_X(ctx)[1])>>
        /\ gX[1].rank = saved_X(ctx)[1].rank
        /\ Numel(gX[1]) = Numel(saved_X(ctx)[1])
        /\ \A j \in 1..Numel(gX[1]) :
              gX[1].data[j] = GradAt(kernel, saved_X(ctx), saved_A(ctx), gA,
                                     Tiles(bwd_log), Len(bwd_log), j)

\* How many of the tiles of a log hold input position j.
Touching(log, j) ==
    Cardinality({i \in 1..Len(log) :
        Covers(view_of(saved_X(ctx)[1], log[i].tile.x_views[1]), j)})

\* C5 witness: backward has returned; one position lies in two tiles' input
\* slices, both with a non-zero result, and another position in one.
C5_Witness ==
    /\ pc = "bwd_done"
    /\ planner.kind = "strided"
    /\ \E j \in 1..Numel(gX[1]) :
          /\ Touching(bwd_log, j) = 2
          /\ \E i1 \in 1..Len(bwd_log), i2 \in 1..Len(bwd_log) :
                /\ i1 < i2
                /\ Covers(view_of(saved_X(ctx)[1], bwd_log[i1].tile.x_views[1]), j)
                /\ Covers(view_of(saved_X(ctx)[1], bwd_log[i2].tile.x_views[1]), j)
                /\ \A e \in 1..Numel(bwd_log[i1].gx[1]) : bwd_log[i1].gx[1].data[e] > 0
                /\ \A e \in 1..Numel(bwd_log[i2].gx[1]) : bwd_log[i2].gx[1].data[e] > 0
    /\ \E j \in 1..Numel(gX[1]) : Touching(bwd_log, j) = 1

\* C5 second case: backward has returned and a position no tile touches holds 0
\* beside a touched position that does not.
C5_GapReached ==
    /\ pc = "bwd_done"
    /\ \E j \in 1..Numel(gX[1]) : Touching(bwd_log, j) = 0 /\ gX[1].data[j] = 0
    /\ \E j \in 1..Numel(gX[1]) : gX[1].data[j] > 0

\* C6: forward takes the planner's tiles one at a time in the planner's order,
\* skipping and repeating none; the accumulator slice tile k reads holds the
\* write-back of every tile before k; the returned accumulator is, at each
\* location, the left fold in planner order; and backward takes the same tiles
\* in the same order when the planner returns the same sequence.
C6_PlannerOrder ==
    /\ pc = "fwd" => Tiles(fwd_log) \o it = FwdPlan
    /\ pc \in {"fwd_done", "saved", "bwd", "bwd_done"} => Tiles(fwd_log) = FwdPlan
    /\ pc = "bwd" => Tiles(bwd_log) \o it = BwdPlan
    /\ pc = "bwd_done" =>
          /\ Tiles(bwd_log) = BwdPlan
          /\ BwdPlan = FwdPlan => Tiles(bwd_log) = Tiles(fwd_log)
    /\ planner.kind \in {"slicer", "strided", "whole", "alternating", "overrun"} =>
          /\ pc \in {"fwd_done", "saved", "bwd", "bwd_done"} =>
                A = RefForward(kernel, X, FwdPlan)
          /\ \A n \in 1..Len(fwd_log) :
                LET v == view_of(A[1], fwd_log[n].tile.a_views[1])
                IN  \A j \in 1..Numel(A[1]) :
                       Covers(v, j) =>
                          fwd_log[n].a[1].data[j - v.lo]
                             = FoldAt(kernel, X, FwdPlan, n - 1, j)

\* C6 witness: forward and backward have run over at least three tiles whose
\* accumulator slices overlap, under the order-sensitive combine, and folding
\* the same tiles in the reverse order would have given another accumulator.
C6_Witness ==
    /\ pc = "bwd_done"
    /\ kernel = "affine"
    /\ planner.kind = "strided"
    /\ planner.stride < planner.w
    /\ Len(fwd_log) >= 3
    /\ Tiles(bwd_log) = Tiles(fwd_log)
    /\ A # RefForward(kernel, X, [i \in 1..Len(FwdPlan) |-> FwdPlan[Len(FwdPlan) + 1 - i]])

\* A correspondence that does not fit the shapes: an index tuple with fewer or
\* more entries than there are tensors, or a slice range past a tensor's extent.
Misfit(views, T) ==
    \/ Len(views) # Len(T)
    \/ \E i \in 1..ZipLen(T, views) :
          \E d \in 1..Len(views[i]) : views[i][d].hi > Numel(T[i])

\* C7 as stated: a correspondence that does not fit the shapes of the inputs
\* or accumulators makes forward and backward raise at the slicing step of
\* that tile: no such tile gets as far as proj_fold or proj_fold_bwd, and
\* neither pass returns once the planner has yielded one.
C7_Original ==
    /\ \A n \in 1..Len(fwd_log) :
          ~(Misfit(fwd_log[n].tile.a_views, A) \/ Misfit(fwd_log[n].tile.x_views, X))
    /\ \A n \in 1..Len(bwd_log) :
          ~(\/ Misfit(bwd_log[n].tile.a_views, saved_A(ctx))
            \/ Misfit(bwd_log[n].tile.x_views, saved_X(ctx)))
    /\ pc \in {"fwd_done", "saved"} =>
          \A n \in 1..Len(FwdPlan) :
              ~(Misfit(FwdPlan[n].a_views, A) \/ Misfit(FwdPlan[n].x_views, X))

\* C8: setup_context keeps the inputs and the returned accumulators and nothing
\* else; backward calls proj_fold_bwd once per tile, in order, with the tile's
\* slice of the saved X, its slice of the final A (not the value folded at that
\* tile) and the same-indexed slice of the incoming gradient.
C8_FinalAccumulator ==
    pc \in {"saved", "bwd", "bwd_done"} =>
        /\ ctx = [num_inputs |-> Len(X), saved_tensors |-> X \o A]
        /\ Len(bwd_log) <= Len(BwdPlan)
        /\ pc = "bwd_done" => Len(bwd_log) = Len(BwdPlan)
        /\ \A n \in 1..Len(bwd_log) :
              LET t == BwdPlan[n]
              IN  /\ bwd_log[n].tile = t
                  /\ bwd_log[n].x = reads(X, slices(X, t.x_views))
                  /\ bwd_log[n].a = reads(A, slices(A, t.a_views))
                  /\ bwd_log[n].ga = reads(gA, slices(gA, t.a_views))
                  /\ bwd_log[n].gx = proj_fold_bwd(kernel, bwd_log[n].x, bwd_log[n].a,
                                                   bwd_log[n].ga)

\* C8 witness: backward has returned after at least two tiles, and the
\* accumulator slice the first tile's proj_fold_bwd call received is not the
\* value forward wrote back at that tile.
C8_Witness ==
    /\ pc = "bwd_done"
    /\ Len(bwd_log) >= 2
    /\ Len(fwd_log) >= 2
    /\ bwd_log[1].tile = fwd_log[1].tile
    /\ bwd_log[1].a # fwd_log[1].new_a
    /\ bwd_log[1].a = reads(A, slices(A, bwd_log[1].tile.a_views))

\* C9 as stated: when the planner returns to backward another sequence than it
\* returned to forward, the gradient backward returns differs from the
\* gradient of a backward pass over forward's sequence.
C9_Original ==
    (pc = "bwd_done" /\ planner.kind = "alternating" /\ BwdPlan # FwdPlan) =>
        gX # RefBackward(kernel, saved_X(ctx), saved_A(ctx), gA, FwdPlan)

\* C9 amended: under a planner that alternates between two tilings nothing is
\* raised or reported; backward takes the tiles of the sequence the planner
\* returns to it and returns the gradient of that sequence: at each position
\* the sum of the proj_fold_bwd results of its tiles that hold the position.
C9_SilentReplan ==
    planner.kind = "alternating" =>
        /\ pc # "raised"
        /\ err = "none"
        /\ pc = "bwd" => Tiles(bwd_log) \o it = BwdPlan
        /\ pc = "bwd_done" =>
              /\ Tiles(bwd_log) = BwdPlan
              /\ gX = RefBackward(kernel, saved_X(ctx), saved_A(ctx), gA, BwdPlan)

\* C9 witness: backward has returned under another sequence than forward's,
\* with a gradient that differs from the one forward's sequence gives.
C9_Witness ==
    /\ pc = "bwd_done"
    /\ planner.kind = "alternating"
    /\ BwdPlan # FwdPlan
    /\ err = "none"
    /\ gX # RefBackward(kernel, saved_X(ctx), saved_A(ctx), gA, FwdPlan)

\* C10: whatever calls came before, forward returns the accumulators a call on
\* its X alone gives and backward the gradient a call on its saved X, saved A
\* and incoming gradient alone gives; backward changes none of the three.
C10_NoCarryOver ==
    /\ [](pc \in {"fwd_done", "saved"} =>
            A = RefForward(kernel, X, chunker(kernel, planner, X, 0)))
    /\ [](pc = "bwd_done" =>
            gX = RefBackward(kernel, saved_X(ctx), saved_A(ctx), gA,
                             chunker(kernel, planner, saved_X(ctx), 0)))
    /\ [][pc = "bwd" => (ctx' = ctx /\ gA' = gA /\ X' = X /\ A' = A)]_vars

\* C10 witness: a second forward/backward pair has returned, after a first
\* pair, with a non-zero gradient.
C10_Witness ==
    /\ harness = "loop"
    /\ pc = "bwd_done"
    /\ plan_calls = 4
    /\ \E j \in 1..Numel(gX[1]) : gX[1].data[j] > 0

\* C10 second case: backward has returned a second time over the same saved
\* state.
C10_BackwardTwice ==
    /\ harness = "loop"
    /\ pc = "bwd_done"
    /\ plan_calls = 3
    /\ budget = 0
    /\ \E j \in 1..Numel(gX[1]) : gX[1].data[j] > 0

====
